---- MODULE Spec2Model ----
(***************************************************************************)
(* Model of ProcessarXML.js: a feed document is loaded, its <Listing>      *)
(* blocks are extracted, regrouped in batches of BATCH_SIZE inside the     *)
(* <Listings> wrapper, each batch is written to a file and, after the      *)
(* operator's confirmation, posted to the API.                             *)
(*                                                                         *)
(* Text is a sequence of tokens: the four tags the regular expressions of  *)
(* the script look for, the newline, and other characters.  Indices are    *)
(* 0-based as in the script.                                               *)
(***************************************************************************)
EXTENDS Integers, Sequences, FiniteSets, TLC

\* ------------------------------------------------------------------ bounds

\* Longest arbitrary document (in tokens) offered to fetchXmlText.
MaxLen == 4
\* Largest well-formed feed (in <Listing> blocks) offered to fetchXmlText.
MaxRecords == 261

\* ------------------------------------------------------------------ tokens

OpenListings  == "<Listings>"
CloseListings == "</Listings>"
OpenListing   == "<Listing>"
CloseListing  == "</Listing>"
NL            == "\n"

Min(a, b) == IF a < b THEN a ELSE b
Max(a, b) == IF a > b THEN a ELSE b

\* ------------------------------------------------------- String.prototype

\* s.slice(from, to): 0-based, end exclusive, clamped to the string.
Slice(s, from, to) == SubSeq(s, Max(from, 0) + 1, Min(to, Len(s)))

\* s.slice(from)
SliceFrom(s, from) == SubSeq(s, Max(from, 0) + 1, Len(s))

\* s.indexOf(pat): 0-based index of the first occurrence, -1 when absent.
IndexOf(s, pat) ==
    LET hits == { p \in 0..(Len(s) - Len(pat)) : Slice(s, p, p + Len(pat)) = pat }
    IN  IF hits = {} THEN -1 ELSE CHOOSE p \in hits : \A q \in hits : p <= q

\* s.search(/tag/i): 0-based index of the first token equal to tag, else -1.
Search(s, tag) ==
    LET hits == { p \in 0..(Len(s) - 1) : s[p + 1] = tag }
    IN  IF hits = {} THEN -1 ELSE CHOOSE p \in hits : \A q \in hits : p <= q

\* parts.join(sep).  JoinRange joins parts[lo..hi]; the range is halved so
\* that long feeds are evaluated at logarithmic depth.
RECURSIVE JoinRange(_, _, _, _)
JoinRange(parts, lo, hi, sep) ==
    IF lo > hi THEN << >>
    ELSE IF lo = hi THEN parts[lo]
    ELSE LET mid == (lo + hi) \div 2
         IN  JoinRange(parts, lo, mid, sep) \o sep \o JoinRange(parts, mid + 1, hi, sep)

Join(parts, sep) == JoinRange(parts, 1, Len(parts), sep)

\* xmlText.match(/<Listing\b[^>]*>[\s\S]*?<\/Listing>/gi) || []
\* The scan runs left to right over s[lo..hi]: a match opens at the first
\* <Listing> met outside a match and closes at the nearest </Listing>; the
\* scan resumes after it.  start is the position where the pending match
\* opened, 0 outside a match.  The range is halved as in JoinRange.
RECURSIVE Scan(_, _, _, _)
Scan(s, lo, hi, start) ==
    IF lo > hi THEN [start |-> start, acc |-> << >>]
    ELSE IF lo = hi
    THEN IF start = 0
         THEN [start |-> IF s[lo] = OpenListing THEN lo ELSE 0, acc |-> << >>]
         ELSE IF s[lo] = CloseListing
              THEN [start |-> 0, acc |-> << SubSeq(s, start, lo) >>]
              ELSE [start |-> start, acc |-> << >>]
    ELSE LET mid  == (lo + hi) \div 2
             left == Scan(s, lo, mid, start)
         IN  \* the test only makes the left half be evaluated first
             IF left.start >= 0
             THEN LET right == Scan(s, mid + 1, hi, left.start)
                  IN  [start |-> right.start, acc |-> left.acc \o right.acc]
             ELSE left

MatchListings(s) == Scan(s, 1, Len(s), 0).acc

\* ------------------------------------------------------------ configuration

\* An environment variable that is not set; as a string it reads "undefined".
Undefined == << "undefined" >>

ToStr(v) ==
    IF v = Undefined THEN << "u", "n", "d", "e", "f", "i", "n", "e", "d" >> ELSE v

\* parseInt yields a number or NaN; the strings parsed here carry no sign,
\* so every number is >= 0 and NaN is kept apart from them.
NaN == 0 - 1

DigitChars ==
    << "0", "1", "2", "3", "4", "5", "6", "7", "8", "9",
       "a", "b", "c", "d", "e", "f", "g", "h", "i", "j", "k", "l", "m",
       "n", "o", "p", "q", "r", "s", "t", "u", "v", "w", "x", "y", "z" >>

\* The value of c as a digit; Len(DigitChars) when c is no digit.
DigitVal(c) ==
    IF \E d \in 1..Len(DigitChars) : DigitChars[d] = c
    THEN (CHOOSE d \in 1..Len(DigitChars) : DigitChars[d] = c) - 1
    ELSE Len(DigitChars)

RECURSIVE ParseDigits(_, _, _, _)
ParseDigits(str, pos, radix, acc) ==
    IF pos > Len(str) \/ DigitVal(str[pos]) >= radix THEN acc
    ELSE ParseDigits(str, pos + 1, radix, acc * radix + DigitVal(str[pos]))

\* parseInt(v, R) of ECMAScript: a radix other than 0 outside 2..36 gives
\* NaN whatever the string; radix 0 means 10; no leading digit gives NaN.
ParseInt(v, R) ==
    LET str   == ToStr(v)
        radix == IF R = 0 THEN 10 ELSE R
    IN  IF R # 0 /\ (R < 2 \/ R > 36) THEN NaN
        ELSE IF Len(str) = 0 \/ DigitVal(str[1]) >= radix THEN NaN
        ELSE ParseDigits(str, 1, radix, 0)

\* a || b on numbers: NaN and 0 are falsy.
OrElse(a, b) == IF a = NaN \/ a = 0 THEN b ELSE a

\* The radix the script hands to parseInt for BATCH_SIZE.
BatchSizeRadix == 100
\* The batch size used when parseInt gives nothing usable.
DefaultBatchSize == 130

\* const BATCH_SIZE = parseInt(process.env.BATCH_SIZE, 100) || 130;
ReadBatchSize(env) == OrElse(ParseInt(env, BatchSizeRadix), DefaultBatchSize)

\* Values of the BATCH_SIZE environment variable.
EnvValues == { Undefined, << "1", "5", "0" >>, << "2" >> }

\* --------------------------------------------------------------- askQuestion

Whitespace == { " ", "\t" }

RECURSIVE TrimStart(_)
TrimStart(s) ==
    IF Len(s) > 0 /\ s[1] \in Whitespace THEN TrimStart(Tail(s)) ELSE s

RECURSIVE TrimEnd(_)
TrimEnd(s) ==
    IF Len(s) > 0 /\ s[Len(s)] \in Whitespace
    THEN TrimEnd(SubSeq(s, 1, Len(s) - 1)) ELSE s

Trim(s) == TrimEnd(TrimStart(s))

LowerChar(c) ==
    CASE c = "S" -> "s" [] c = "I" -> "i" [] c = "M" -> "m" [] c = "N" -> "n"
      [] OTHER -> c

ToLowerCase(s) == [p \in 1..Len(s) |-> LowerChar(s[p])]

\* (ans || '').trim().toLowerCase()
Normalize(ans) == ToLowerCase(Trim(IF ans = Undefined THEN << >> ELSE ans))

\* Variant: whatever is not "n" counts as yes.
IsNotNo(a) == a # << "n" >>

\* answer === 's' || answer === 'sim'
IsYes(a) == a = << "s" >> \/ a = << "s", "i", "m" >>

\* Lines the operator may type.
Answers ==
    { << >>, << "s" >>, << "S" >>, << " ", "s", " " >>, << "s", "i", "m" >>,
      << "\t", "S", "I", "M" >>, << "n" >>, << "s", "s" >>, << "s", " ", "i", "m" >>,
      << "s", "i" >>, Undefined }

\* ------------------------------------------------------------------ inputs

Alphabet == { OpenListings, CloseListings, OpenListing, CloseListing, NL, "a" }

\* Every document of at most MaxLen tokens.
SmallDocs == UNION { [1..n -> Alphabet] : n \in 0..MaxLen }

\* <Listings><Listing>1</Listing>...<Listing>n</Listing></Listings>
FeedDoc(n) ==
    [p \in 1..(3 * n + 2) |->
        IF p = 1 THEN OpenListings
        ELSE IF p = 3 * n + 2 THEN CloseListings
        ELSE CASE (p - 2) % 3 = 0 -> OpenListing
               [] (p - 2) % 3 = 1 -> ToString((p - 2) \div 3 + 1)
               [] OTHER           -> CloseListing]

FeedDocs == { FeedDoc(n) : n \in 0..MaxRecords }

Docs == SmallDocs \cup FeedDocs

\* ------------------------------------------------------------------- state

VARIABLES
    envBatchSize,    \* process.env.BATCH_SIZE
    BATCH_SIZE,      \* the module constant computed from it
    pc,              \* where main stands
    xmlText,
    listingMatches,
    headerSection,
    footerSection,
    i,               \* loop offset (0-based)
    loteIndex,
    batchMatches,
    batchXml,
    ans,             \* the line handed to the readline callback
    answer,          \* what askQuestion resolves to
    files,           \* files written under lotes/, in order
    batches,         \* batches the loop has built, in order
    log              \* console and I/O events, in order

vars == << envBatchSize, BATCH_SIZE, pc, xmlText, listingMatches, headerSection,
           footerSection, i, loteIndex, batchMatches, batchXml, ans, answer,
           files, batches, log >>

Ev(e, k) == [ev |-> e, k |-> k]

Init ==
    /\ envBatchSize \in EnvValues
    /\ BATCH_SIZE = ReadBatchSize(envBatchSize)
    /\ pc = "fetch"
    /\ xmlText = << >>
    /\ listingMatches = << >>
    /\ headerSection = << >>
    /\ footerSection = << >>
    /\ i = 0
    /\ loteIndex = 1
    /\ batchMatches = << >>
    /\ batchXml = << >>
    /\ ans = << >>
    /\ answer = << >>
    /\ files = << >>
    /\ batches = << >>
    /\ log = << >>

\* The catch of main: the error is printed as fatal and main ends.
Fatal(cause) ==
    /\ pc' = "fatal"
    /\ log' = log \o << Ev(cause, 0), Ev("fatal", 0) >>

\* ------------------------------------------------------------------- main

\* fetchXmlText returns the text of the file or of the download.  An empty
\* text is refused by main (throw 'XML vazio ou invalido').
FetchOk ==
    /\ pc = "fetch"
    /\ \E doc \in Docs :
         IF Len(doc) = 0
         THEN /\ Fatal("emptyXml")
              /\ UNCHANGED xmlText
         ELSE /\ xmlText' = doc
              /\ pc' = "extract"
              /\ UNCHANGED log
    /\ UNCHANGED << envBatchSize, BATCH_SIZE, listingMatches, headerSection,
                    footerSection, i, loteIndex, batchMatches, batchXml, ans,
                    answer, files, batches >>

\* readFileSync or axios.get throws.
FetchFail ==
    /\ pc = "fetch"
    /\ Fatal("fetchErr")
    /\ UNCHANGED << envBatchSize, BATCH_SIZE, xmlText, listingMatches,
                    headerSection, footerSection, i, loteIndex, batchMatches,
                    batchXml, ans, answer, files, batches >>

\* Variant: the report of an empty feed does not return.
ExtractNoReturn ==
    /\ pc = "extract"
    /\ listingMatches' = MatchListings(xmlText)
    /\ log' = IF Len(listingMatches') = 0
              THEN Append(log, Ev("noListings", 0)) ELSE log
    /\ pc' = "wrap"
    /\ UNCHANGED << envBatchSize, BATCH_SIZE, xmlText, headerSection,
                    footerSection, i, loteIndex, batchMatches, batchXml, ans,
                    answer, files, batches >>

\* The <Listing> blocks; without any, main reports it and returns.
Extract ==
    /\ pc = "extract"
    /\ listingMatches' = MatchListings(xmlText)
    /\ IF Len(listingMatches') = 0
       THEN /\ pc' = "halted"
            /\ log' = Append(log, Ev("noListings", 0))
       ELSE /\ pc' = "wrap"
            /\ UNCHANGED log
    /\ UNCHANGED << envBatchSize, BATCH_SIZE, xmlText, headerSection,
                    footerSection, i, loteIndex, batchMatches, batchXml, ans,
                    answer, files, batches >>

\* Both container tags found.
HasWrapper(s) == Search(s, OpenListings) >= 0 /\ Search(s, CloseListings) >= 0

\* headerSection: through the opening <Listings> tag, or, on the fallback,
\* the text before the first listing plus a new <Listings>.
HeaderOf(s, matches) ==
    IF HasWrapper(s)
    THEN LET openIdx    == Search(s, OpenListings)
             openEndIdx == openIdx + 1
         IN  Slice(s, 0, openEndIdx)
    ELSE LET firstListingIdx == IndexOf(s, matches[1])
         IN  Slice(s, 0, firstListingIdx) \o << OpenListings >>

\* footerSection: from the closing </Listings> tag on, or, on the fallback,
\* a new </Listings> plus the text after the last listing.
FooterOf(s, matches) ==
    IF HasWrapper(s)
    THEN LET closeIdx == Search(s, CloseListings)
         IN  SliceFrom(s, closeIdx)
    ELSE LET last           == matches[Len(matches)]
             lastListingIdx == IndexOf(s, last) + Len(last)
         IN  << CloseListings >> \o SliceFrom(s, lastListingIdx)

Wrap ==
    /\ pc = "wrap"
    /\ headerSection' = HeaderOf(xmlText, listingMatches)
    /\ footerSection' = FooterOf(xmlText, listingMatches)
    /\ log' = IF HasWrapper(xmlText) THEN log
              ELSE Append(log, Ev("warnFallback", 0))
    /\ pc' = "mkdir"
    /\ UNCHANGED << envBatchSize, BATCH_SIZE, xmlText, listingMatches, i,
                    loteIndex, batchMatches, batchXml, ans, answer, files,
                    batches >>

\* if (!fs.existsSync(OUTPUT_DIR)) fs.mkdirSync(OUTPUT_DIR); then the loop
\* variables and the readline interface.
PrepareOutput ==
    /\ pc = "mkdir"
    /\ \E exists \in BOOLEAN :
         log' = IF exists THEN log ELSE Append(log, Ev("mkdir", 0))
    /\ i' = 0
    /\ loteIndex' = 1
    /\ pc' = "loop"
    /\ UNCHANGED << envBatchSize, BATCH_SIZE, xmlText, listingMatches,
                    headerSection, footerSection, batchMatches, batchXml, ans,
                    answer, files, batches >>

\* mkdirSync throws.
PrepareOutputFail ==
    /\ pc = "mkdir"
    /\ Fatal("mkdirErr")
    /\ UNCHANGED << envBatchSize, BATCH_SIZE, xmlText, listingMatches,
                    headerSection, footerSection, i, loteIndex, batchMatches,
                    batchXml, ans, answer, files, batches >>

\* Variant: the slice runs one listing too far.
BatchSliceOverlap(matches, from, size) == Slice(matches, from, from + size + 1)

\* listingMatches.slice(i, i + BATCH_SIZE)
BatchSlice(matches, from, size) == Slice(matches, from, from + size)

\* Variant: the listings are joined without a separator.
BatchXmlNoSeparator(header, records, footer) ==
    header \o << NL >> \o Join(records, << >>) \o << NL >> \o footer

\* headerSection + '\n' + batchMatches.join('\n') + '\n' + footerSection
BatchXml(header, records, footer) ==
    header \o << NL >> \o Join(records, << NL >>) \o << NL >> \o footer

\* The loop test: the next batch is built, or the loop ends.
Loop ==
    /\ pc = "loop"
    /\ IF i < Len(listingMatches)
       THEN /\ batchMatches' = BatchSlice(listingMatches, i, BATCH_SIZE)
            /\ batchXml' = BatchXml(headerSection, batchMatches', footerSection)
            /\ batches' = Append(batches, [index   |-> loteIndex,
                                           records |-> batchMatches'])
            /\ pc' = "persist"
            /\ UNCHANGED log
       ELSE /\ pc' = "done"
            /\ log' = Append(log, Ev("done", 0))
            /\ UNCHANGED << batchMatches, batchXml, batches >>
    /\ UNCHANGED << envBatchSize, BATCH_SIZE, xmlText, listingMatches,
                    headerSection, footerSection, i, loteIndex, ans, answer,
                    files >>

\* writeFileSync succeeds; the question is put to the operator.
Persist ==
    /\ pc = "persist"
    /\ files' = Append(files, [name |-> loteIndex, data |-> batchXml])  \* lote_<loteIndex>.xml
    /\ log' = log \o << Ev("persist", loteIndex), Ev("ask", loteIndex) >>
    /\ pc' = "ask"
    /\ UNCHANGED << envBatchSize, BATCH_SIZE, xmlText, listingMatches,
                    headerSection, footerSection, i, loteIndex, batchMatches,
                    batchXml, ans, answer, batches >>

\* Variant: a failed write is caught per batch and the loop goes on.
PersistFailSkipsBatch ==
    /\ pc = "persist"
    /\ pc' = "next"
    /\ log' = Append(log, Ev("persistErr", loteIndex))
    /\ UNCHANGED << envBatchSize, BATCH_SIZE, xmlText, listingMatches,
                    headerSection, footerSection, i, loteIndex, batchMatches,
                    batchXml, ans, answer, files, batches >>

\* writeFileSync throws: nothing in the loop catches it.
PersistFail ==
    /\ pc = "persist"
    /\ pc' = "fatal"
    /\ log' = log \o << Ev("persistErr", loteIndex), Ev("fatal", 0) >>
    /\ UNCHANGED << envBatchSize, BATCH_SIZE, xmlText, listingMatches,
                    headerSection, footerSection, i, loteIndex, batchMatches,
                    batchXml, ans, answer, files, batches >>

\* The operator's line arrives; askQuestion resolves.
Ask ==
    /\ pc = "ask"
    /\ \E line \in Answers :
         /\ ans' = line
         /\ answer' = Normalize(line)
    /\ pc' = "decide"
    /\ UNCHANGED << envBatchSize, BATCH_SIZE, xmlText, listingMatches,
                    headerSection, footerSection, i, loteIndex, batchMatches,
                    batchXml, files, batches, log >>

\* Variant: the post is not awaited.
DecideNoAwait ==
    /\ pc = "decide"
    /\ log' = Append(log, Ev(IF IsYes(answer) THEN "post" ELSE "skip", loteIndex))
    /\ pc' = "next"
    /\ ans' = << >>
    /\ answer' = << >>
    /\ UNCHANGED << envBatchSize, BATCH_SIZE, xmlText, listingMatches,
                    headerSection, footerSection, i, loteIndex, batchMatches,
                    batchXml, files, batches >>

\* if (answer === 's' || answer === 'sim') axios.post(...) else skip.
\* Nothing reads ans or answer after this test.
Decide ==
    /\ pc = "decide"
    /\ IF IsYes(answer)
       THEN /\ log' = Append(log, Ev("post", loteIndex))
            /\ pc' = "post"
       ELSE /\ log' = Append(log, Ev("skip", loteIndex))
            /\ pc' = "next"
    /\ ans' = << >>
    /\ answer' = << >>
    /\ UNCHANGED << envBatchSize, BATCH_SIZE, xmlText, listingMatches,
                    headerSection, footerSection, i, loteIndex, batchMatches,
                    batchXml, files, batches >>

\* axios.post resolves.
PostOk ==
    /\ pc = "post"
    /\ log' = Append(log, Ev("postOk", loteIndex))
    /\ pc' = "next"
    /\ UNCHANGED << envBatchSize, BATCH_SIZE, xmlText, listingMatches,
                    headerSection, footerSection, i, loteIndex, batchMatches,
                    batchXml, ans, answer, files, batches >>

\* Variant: a rejected post reaches the outer catch.
PostFailFatal ==
    /\ pc = "post"
    /\ pc' = "fatal"
    /\ log' = log \o << Ev("postErr", loteIndex), Ev("fatal", 0) >>
    /\ UNCHANGED << envBatchSize, BATCH_SIZE, xmlText, listingMatches,
                    headerSection, footerSection, i, loteIndex, batchMatches,
                    batchXml, ans, answer, files, batches >>

\* axios.post rejects (network error, status, timeout): the inner catch.
PostFail ==
    /\ pc = "post"
    /\ log' = Append(log, Ev("postErr", loteIndex))
    /\ pc' = "next"
    /\ UNCHANGED << envBatchSize, BATCH_SIZE, xmlText, listingMatches,
                    headerSection, footerSection, i, loteIndex, batchMatches,
                    batchXml, ans, answer, files, batches >>

\* loteIndex++ and the loop's i += BATCH_SIZE.
NextBatch ==
    /\ pc = "next"
    /\ loteIndex' = loteIndex + 1
    /\ i' = i + BATCH_SIZE
    /\ pc' = "loop"
    /\ UNCHANGED << envBatchSize, BATCH_SIZE, xmlText, listingMatches,
                    headerSection, footerSection, batchMatches, batchXml, ans,
                    answer, files, batches, log >>

Next ==
    \/ FetchOk
    \/ FetchFail
    \/ Extract
    \/ Wrap
    \/ PrepareOutput
    \/ PrepareOutputFail
    \/ Loop
    \/ Persist
    \/ PersistFail
    \/ Ask
    \/ Decide
    \/ PostOk
    \/ PostFail
    \/ NextBatch

Spec == Init /\ [][Next]_vars

\* ================================================================ properties

\* ceil(n / b) for b > 0
Ceil(n, b) == (n + b - 1) \div b

RECURSIVE ConcatRecords(_)
ConcatRecords(bs) ==
    IF Len(bs) = 0 THEN << >>
    ELSE ConcatRecords(SubSeq(bs, 1, Len(bs) - 1)) \o bs[Len(bs)].records

\* Positions of the log holding event e of batch k.
At(e, k) == { n \in DOMAIN log : log[n] = Ev(e, k) }

\* C1: the loop emits the batches 1, 2, ... in order; each holds between 1 and
\* BATCH_SIZE records and every batch but the last exactly BATCH_SIZE; the
\* slices emitted so far, concatenated, are the leading listings; and when the
\* run is done there are ceil(N / BATCH_SIZE) batches whose concatenation is
\* the whole extracted sequence.
C1_Partition ==
    /\ BATCH_SIZE > 0
    /\ \A k \in DOMAIN batches :
         /\ batches[k].index = k
         /\ Len(batches[k].records) \in 1..BATCH_SIZE
         /\ k < Len(batches) => Len(batches[k].records) = BATCH_SIZE
    /\ LET all == ConcatRecords(batches)
       IN  /\ Len(all) <= Len(listingMatches)
           /\ all = SubSeq(listingMatches, 1, Len(all))
           /\ pc = "done" =>
                /\ Len(listingMatches) >= 1
                /\ Len(batches) = Ceil(Len(listingMatches), BATCH_SIZE)
                /\ all = listingMatches

\* A finished run of three batches, the last one short.
C1_Witness ==
    /\ pc = "done"
    /\ Len(batches) = 3
    /\ Len(batches[3].records) < BATCH_SIZE
    /\ Len(batches[1].records) = BATCH_SIZE

\* ceil(N / BATCH_SIZE): the batches a complete run goes through.
NumBatches == Ceil(Len(listingMatches), BATCH_SIZE)

\* The event that follows the end of batch k's turn when the run goes on.
FollowsBatch(e, k) ==
    IF k < NumBatches
    THEN e \in { Ev("persist", k + 1), Ev("persistErr", k + 1) }
    ELSE e = Ev("done", 0)

\* The setting is written in decimal digits.
IsDecimal(env) ==
    /\ env # Undefined
    /\ Len(env) > 0
    /\ \A p \in DOMAIN env : DigitVal(env[p]) < 10

\* C3: a BATCH_SIZE setting that is a positive decimal integer B is the batch
\* size: no batch holds more than B records and a finished run has made
\* ceil(N / B) batches; the default of 130 is the batch size only when the
\* setting is absent.
C3_ConfiguredBatchSize ==
    LET B == IF IsDecimal(envBatchSize) /\ ParseInt(envBatchSize, 10) > 0
             THEN ParseInt(envBatchSize, 10)
             ELSE DefaultBatchSize
    IN  (envBatchSize = Undefined \/ IsDecimal(envBatchSize)) =>
           /\ \A k \in DOMAIN batches : Len(batches[k].records) <= B
           /\ pc = "done" => Len(batches) = Ceil(Len(listingMatches), B)

\* The operator's line, stripped of surrounding blanks and compared without
\* regard to case, is "s" or "sim".
YesWords ==
    { << x >> : x \in { "s", "S" } } \cup
    { << x, y, z >> : x \in { "s", "S" }, y \in { "i", "I" }, z \in { "m", "M" } }

Affirmative(line) ==
    /\ line # Undefined
    /\ \E a \in 0..Len(line) : \E b \in 0..(Len(line) - a) :
         /\ \A p \in 1..a : line[p] \in Whitespace
         /\ \A p \in (Len(line) - b + 1)..Len(line) : line[p] \in Whitespace
         /\ SubSeq(line, a + 1, Len(line) - b) \in YesWords

\* No batch is posted twice, and a skip is followed by the next batch.
C4_PostsAtMostOnce ==
    \A n \in DOMAIN log :
       /\ log[n].ev = "post" => At("post", log[n].k) = { n }
       /\ (log[n].ev = "skip" /\ n < Len(log)) => FollowsBatch(log[n + 1], log[n].k)

\* The step that reads the answer posts only on an affirmative line, and no
\* other step posts.
C4_DecideStep ==
    /\ pc = "decide" =>
         IF Affirmative(ans)
         THEN log' = Append(log, Ev("post", loteIndex))
         ELSE /\ log' = Append(log, Ev("skip", loteIndex))
              /\ pc' = "next"
    /\ (Len(log') > Len(log) /\ log'[Len(log')].ev = "post") =>
         /\ pc = "decide"
         /\ Affirmative(ans)
         /\ log' = Append(log, Ev("post", loteIndex))

\* C4: a batch is posted at most once, and a post is issued only on the step
\* that reads an affirmative answer for that batch; any other answer makes
\* that step report a skip without a post, and after a skip the run goes on to
\* persist and offer the next batch (or ends after the last one).
C4_ConfirmGate == [](C4_PostsAtMostOnce) /\ [][C4_DecideStep]_vars

\* Batch 1 was declined and batch 2, offered after it, was posted.
C4_Witness ==
    \E n \in DOMAIN log :
       /\ log[n] = Ev("skip", 1)
       /\ n + 3 <= Len(log)
       /\ log[n + 1] = Ev("persist", 2)
       /\ log[n + 2] = Ev("ask", 2)
       /\ log[n + 3] = Ev("post", 2)

\* C5: a failed post of batch k is followed by the next batch being persisted
\* (its write attempted) or, after the last batch, by the end of the run; it
\* is never followed by the fatal report; and a finished run has persisted and
\* offered every batch after k.
C5_FailureIsolated ==
    \A n \in DOMAIN log :
       log[n].ev = "postErr" =>
          LET k == log[n].k
          IN  /\ n = Len(log) => pc \in { "next", "loop", "persist" }
              /\ n < Len(log) => FollowsBatch(log[n + 1], k)
              /\ pc = "done" =>
                   \A j \in (k + 1)..NumBatches :
                      /\ At("persist", j) # {}
                      /\ At("ask", j) # {}
                      /\ \E f \in DOMAIN files : files[f].name = j

\* The post of batch 1 failed, batch 2 was persisted and offered, the run ended.
C5_Witness ==
    /\ pc = "done"
    /\ At("postErr", 1) # {}
    /\ At("persist", 2) # {}
    /\ At("ask", 2) # {}

\* C6: once a loaded document has been found to hold no <Listing> block, the
\* run has halted with the report that none was found and nothing else has
\* happened: no file, no batch, no directory, no question, no post.
C6_NoRecordsHalts ==
    (Len(xmlText) > 0 /\ pc \notin { "fetch", "extract" } /\ Len(listingMatches) = 0) =>
       /\ pc = "halted"
       /\ files = << >>
       /\ batches = << >>
       /\ log = << Ev("noListings", 0) >>

\* A document with the container and no listing in it.
C6_Witness ==
    /\ pc = "halted"
    /\ Search(xmlText, OpenListings) >= 0
    /\ Search(xmlText, CloseListings) >= 0
    /\ Len(listingMatches) = 0

\* The events that belong to a batch.
BatchEvents ==
    { "persist", "persistErr", "ask", "post", "skip", "postOk", "postErr" }

\* C7: the batch events of the log come one batch at a time, in index order:
\* the question of batch k right after its write, the post or the skip right
\* after the question, the post's outcome right after the post, and the write
\* of batch k+1 right after the outcome or the skip of batch k; no batch is
\* both posted and skipped, and no event belongs to a batch beyond the
\* current one.
C7_OneBatchAtATime ==
    \A n \in DOMAIN log :
       log[n].ev \in BatchEvents =>
          LET e == log[n].ev
              k == log[n].k
              prev == IF n > 1 THEN log[n - 1] ELSE Ev("none", 0)
          IN  /\ k \in 1..loteIndex
              /\ e = "ask" => prev = Ev("persist", k)
              /\ e \in { "post", "skip" } => prev = Ev("ask", k)
              /\ e \in { "postOk", "postErr" } => prev = Ev("post", k)
              /\ e \in { "persist", "persistErr" } =>
                   IF k = 1
                   THEN prev.ev \notin BatchEvents
                   ELSE prev \in { Ev("skip", k - 1), Ev("postOk", k - 1),
                                   Ev("postErr", k - 1) }
              /\ At(e, k) = { n }
              /\ At("post", k) = {} \/ At("skip", k) = {}
              /\ k < loteIndex =>
                   At("skip", k) \cup At("postOk", k) \cup At("postErr", k) # {}

\* Batch 1 was posted and answered, batch 2 was skipped, batch 3 is being asked.
C7_Witness ==
    /\ At("postOk", 1) # {}
    /\ At("skip", 2) # {}
    /\ pc = "ask"
    /\ loteIndex = 3

\* C10: a failed write of batch k is followed by the fatal report and nothing
\* else: the run is in its fatal state, batch k has no file, was not offered
\* and was not posted, and no later batch was built.
C10_WriteFailureFatal ==
    \A n \in DOMAIN log :
       log[n].ev = "persistErr" =>
          LET k == log[n].k
          IN  /\ pc = "fatal"
              /\ n + 1 = Len(log)
              /\ log[n + 1] = Ev("fatal", 0)
              /\ At("ask", k) = {} /\ At("post", k) = {} /\ At("persist", k) = {}
              /\ \A f \in DOMAIN files : files[f].name < k
              /\ Len(batches) = k

\* The write of batch 2 failed after batch 1 had been posted.
C10_Witness ==
    /\ At("persistErr", 2) # {}
    /\ At("postOk", 1) # {}

\* ---------------------------------------------------------- text of a batch

Count(tok, s) == Cardinality({ p \in DOMAIN s : s[p] = tok })

\* text.split(sep) for a one-token separator: the pieces between the
\* separators, empty pieces included.  The range is halved; the last piece of
\* the left half and the first of the right half are one piece.
RECURSIVE SplitRange(_, _, _, _)
SplitRange(s, lo, hi, sep) ==
    IF lo > hi THEN << << >> >>
    ELSE IF lo = hi
    THEN IF s[lo] = sep THEN << << >>, << >> >> ELSE << << s[lo] >> >>
    ELSE LET mid   == (lo + hi) \div 2
             left  == SplitRange(s, lo, mid, sep)
             right == SplitRange(s, mid + 1, hi, sep)
         IN  SubSeq(left, 1, Len(left) - 1)
               \o << left[Len(left)] \o right[1] >>
               \o Tail(right)

Split(s, sep) == SplitRange(s, 1, Len(s), sep)

\* The text of a batch without its leading header and trailing footer.
StripWrapper(xml, header, footer) ==
    SubSeq(xml, Len(header) + 1, Len(xml) - Len(footer))

\* What the round trip recovers: the pieces of the stripped text between the
\* newline that follows the header and the newline that precedes the footer.
Recovered(xml, header, footer) ==
    LET pieces == Split(StripWrapper(xml, header, footer), NL)
    IN  SubSeq(pieces, 2, Len(pieces) - 1)

HasNewline(records) == \E r \in DOMAIN records : Count(NL, records[r]) > 0

\* C2 as stated: the round trip gives back the records of every batch, also
\* when a record holds a newline.
C2_RoundTripAnyRecord ==
    pc = "persist" =>
       Recovered(batchXml, headerSection, footerSection) = batchMatches

\* C2, amended: the round trip gives back the records of every batch none of
\* whose records holds a newline; in every batch the stripped text is the
\* records joined by newlines between two newlines, and a record with a
\* newline in it comes back in more than one piece.
C2_RoundTripNoNewline ==
    pc = "persist" =>
       LET got == Recovered(batchXml, headerSection, footerSection)
       IN  /\ StripWrapper(batchXml, headerSection, footerSection)
                = << NL >> \o Join(batchMatches, << NL >>) \o << NL >>
           /\ ~HasNewline(batchMatches) => got = batchMatches
           /\ HasNewline(batchMatches) => Len(got) > Len(batchMatches)

\* A batch of several records without newlines, and a full batch of a feed.
C2_Witness ==
    /\ pc = "persist"
    /\ Len(batchMatches) = BATCH_SIZE
    /\ ~HasNewline(batchMatches)
    /\ loteIndex = 2

\* C8: in the text of every batch, outside the records, there is exactly one
\* opening <Listings> tag, before the records, and exactly one closing
\* </Listings> tag, after them, whether or not the fallback was used.
C8_WellFormedContainer ==
    pc = "persist" =>
       LET first == Len(headerSection) + 1
           last  == Len(batchXml) - Len(footerSection)
           before == SubSeq(batchXml, 1, first - 1)
           after  == SubSeq(batchXml, last + 1, Len(batchXml))
       IN  /\ Count(OpenListings, before) = 1
           /\ Count(CloseListings, before) = 0
           /\ Count(CloseListings, after) = 1
           /\ Count(OpenListings, after) = 0

\* Where the first extracted record starts: the first <Listing> with a
\* </Listing> after it.
FirstRecordStart(s) ==
    LET opens == { o \in DOMAIN s :
                     s[o] = OpenListing /\ \E c \in (o + 1)..Len(s) : s[c] = CloseListing }
    IN  CHOOSE o \in opens : \A q \in opens : o <= q

\* Where the last extracted record ends: the last </Listing> with a <Listing>
\* since the </Listing> before it.
LastRecordEnd(s) ==
    LET ends == { e \in DOMAIN s :
                    /\ s[e] = CloseListing
                    /\ \E o \in 1..(e - 1) :
                          /\ s[o] = OpenListing
                          /\ \A c \in o..(e - 1) : s[c] # CloseListing }
    IN  CHOOSE e \in ends : \A q \in ends : e >= q

\* C9: on the fallback the header is the text before the first record plus an
\* opening tag, the footer is a closing tag plus the text after the last
\* record, and the footer holds no record.
C9_FallbackWrapper ==
    (pc = "mkdir"
       /\ (Count(OpenListings, xmlText) = 0 \/ Count(CloseListings, xmlText) = 0)) =>
       /\ headerSection
            = SubSeq(xmlText, 1, FirstRecordStart(xmlText) - 1) \o << OpenListings >>
       /\ footerSection
            = << CloseListings >> \o SubSeq(xmlText, LastRecordEnd(xmlText) + 1, Len(xmlText))
       /\ MatchListings(footerSection) = << >>

====
